---------------------------- MODULE Spec2Model ----------------------------
(***************************************************************************)
(* A model of common/Scripts/worklog.py: the build feed filter (Builds),   *)
(* the commit parser and grouping (Commit, Git) and the report driver      *)
(* (Printer.print, Printer.follow).                                        *)
(*                                                                         *)
(* Text is a sequence of code points, a datetime is an integer instant.    *)
(* In follow mode one instant is one sleep interval.                       *)
(***************************************************************************)
EXTENDS Integers, Sequences, FiniteSets

VARIABLES
    pc,        \* position of the process: "ready", "done", "following", "failed", ...
    kind,      \* cli_args.command, passed as kind
    fmt,       \* cli_args.format
    sortFlag,  \* cli_args.sort
    follow,    \* cli_args.follow
    start,     \* Printer.start
    end,       \* Printer.end
    now,       \* the last instant read from the clock
    feed,      \* the content of the build feed at the last fetch
    history,   \* the commits of the repository at the last history query
    stdout,    \* what the history query wrote at the last query
    selected,  \* what the last Printer._items / Git.commits call returned
    printed,   \* the items handed to Printer._print in the last cycle
    out,       \* the lines printed by the last cycle
    err,       \* the error the last call raised, "none" if it returned
    io,        \* the number of feed fetches and history queries performed
    window,    \* the window [start, end] the last cycle selected from
    prevWindow,\* the window of the cycle before it, <<>> if there is none
    groups,    \* what the last Git.commits_by_pkg call returned
    after,     \* parse_date(cli_args.after)
    before,    \* parse_date(cli_args.before)
    selectedAt,\* the instant the last selection read from the clock
    subject,   \* the msg of the commit under inspection
    package,   \* its Commit.package
    change     \* its Commit.change

vars == <<pc, kind, fmt, sortFlag, follow, start, end, now, feed, history,
          stdout, selected, printed, out, err, io, window, prevWindow,
          groups, after, before, selectedAt, subject, package, change>>

---------------------------------------------------------------------------
(* Bounds of the model. *)

MaxTime == 2
MaxEntries == 2
MaxCommits == 3
MaxMsgLen == 4
MaxItems == 1

Times == 0..MaxTime

---------------------------------------------------------------------------
(* Text: Python's str.strip, str.split and str.join on code points. *)

NL == 10
RS == 30
COLON == 58

Whitespace == {9, 10, 11, 12, 13, 28, 29, 30, 31, 32}

Unknown == <<60, 117, 110, 107, 110, 111, 119, 110, 62>>

Range(s) == {s[i] : i \in 1..Len(s)}

RECURSIVE LStrip(_)
LStrip(s) ==
    IF s # <<>> /\ Head(s) \in Whitespace THEN LStrip(Tail(s)) ELSE s

RECURSIVE RStrip(_)
RStrip(s) ==
    IF s # <<>> /\ s[Len(s)] \in Whitespace
    THEN RStrip(SubSeq(s, 1, Len(s) - 1))
    ELSE s

Strip(s) == RStrip(LStrip(s))

RECURSIVE SplitFrom(_, _, _, _)
SplitFrom(rest, cur, sep, maxsplit) ==
    IF rest = <<>> THEN <<cur>>
    ELSE IF Head(rest) = sep /\ maxsplit # 0
         THEN <<cur>> \o SplitFrom(Tail(rest), <<>>, sep, maxsplit - 1)
         ELSE SplitFrom(Tail(rest), Append(cur, Head(rest)), sep, maxsplit)

\* s.split(sep, maxsplit); maxsplit = -1 splits at every sep
Split(s, sep, maxsplit) == SplitFrom(s, <<>>, sep, maxsplit)

RECURSIVE Join(_, _)
Join(sep, parts) ==
    IF parts = <<>> THEN <<>>
    ELSE IF Len(parts) = 1 THEN parts[1]
    ELSE parts[1] \o <<sep>> \o Join(sep, Tail(parts))

RECURSIVE StrLess(_, _)
StrLess(a, b) ==
    IF b = <<>> THEN FALSE
    ELSE IF a = <<>> THEN TRUE
    ELSE IF Head(a) # Head(b) THEN Head(a) < Head(b)
    ELSE StrLess(Tail(a), Tail(b))

RECURSIVE Strings(_, _)
Strings(alphabet, n) ==
    IF n = 0 THEN {<<>>}
    ELSE LET shorter == Strings(alphabet, n - 1)
         IN shorter \cup {Append(s, c) : s \in shorter, c \in alphabet}

---------------------------------------------------------------------------
(* Commit *)

IsoFormat(t) == <<48 + t>>

FromIso(ts) == ts[1] - 48

CommitDate(c) == FromIso(c.ts)

CommitPackage(m) ==
    IF COLON \notin Range(m) THEN Unknown
    ELSE Strip(Split(m, COLON, 2)[1])

CommitChange(m) ==
    IF COLON \notin Range(m) THEN Strip(m)
    ELSE Strip(Split(m, COLON, 2)[2])

\* Commit.from_line: the fields of the line; Commit(*fields) takes exactly four
FromLine(line) == Split(line, RS, -1)

MkCommit(fields) ==
    [ref |-> fields[1], ts |-> fields[2], msg |-> fields[3], author |-> fields[4]]

---------------------------------------------------------------------------
(* Build and Builds *)

None == -1

BuildDate(b, clock) == IF b.finished = None THEN clock ELSE b.finished

\* a dict as the sequence of its items in insertion order
DictGet(d, k, default) ==
    IF \E i \in 1..Len(d) : d[i].key = k
    THEN d[CHOOSE i \in 1..Len(d) : d[i].key = k].val
    ELSE default

DictPut(d, k, v) ==
    IF \E i \in 1..Len(d) : d[i].key = k
    THEN [i \in 1..Len(d) |-> IF d[i].key = k THEN [key |-> k, val |-> v] ELSE d[i]]
    ELSE Append(d, [key |-> k, val |-> v])

DictValues(d) == [i \in 1..Len(d) |-> d[i].val]

RECURSIVE PackagesKeepFirst(_)
PackagesKeepFirst(all) ==
    IF all = <<>> THEN <<>>
    ELSE LET d == PackagesKeepFirst(SubSeq(all, 1, Len(all) - 1))
             b == all[Len(all)]
         IN IF \E i \in 1..Len(d) : d[i].key = b.pkg THEN d ELSE DictPut(d, b.pkg, b)

RECURSIVE PackagesDict(_)
PackagesDict(all) ==
    IF all = <<>> THEN <<>>
    ELSE LET b == all[Len(all)]
         IN DictPut(PackagesDict(SubSeq(all, 1, Len(all) - 1)), b.pkg, b)

BuildsPackagesFirst(all) == DictValues(PackagesKeepFirst(all))

BuildsPackages(all) == DictValues(PackagesDict(all))

BuildsFilterOpenEnd(builds, s, e, clock) ==
    SelectSeq(builds, LAMBDA b : s <= BuildDate(b, clock) /\ BuildDate(b, clock) < e)

BuildsFilter(builds, s, e, clock) ==
    SelectSeq(builds, LAMBDA b : s <= BuildDate(b, clock) /\ BuildDate(b, clock) <= e)

BuildsDuring(all, s, e, clock) == BuildsFilter(all, s, e, clock)

BuildsUpdates(all, s, e, clock) == BuildsFilter(BuildsPackages(all), s, e, clock)

---------------------------------------------------------------------------
(* Git *)

FormatLine(c) == Join(RS, <<c.ref, c.ts, c.msg, c.author>>)

\* the history query: one line per commit dated within the bounds, oldest first
GitLog(h, s, e) ==
    LET hits == SelectSeq(h, LAMBDA c : s <= CommitDate(c) /\ CommitDate(c) <= e)
    IN Join(NL, [i \in 1..Len(hits) |-> FormatLine(hits[i])])

\* Git._commits on what the query wrote
GitRawCommits(text) == Split(Strip(text), NL, -1)

\* Git.commits on what the query wrote
GitCommits(text) ==
    LET lines == GitRawCommits(text)
    IN IF \E i \in 1..Len(lines) : Len(FromLine(lines[i])) # 4
       THEN [err |-> "TypeError", val |-> <<>>]
       ELSE [err |-> "none",
             val |-> [i \in 1..Len(lines) |-> MkCommit(FromLine(lines[i]))]]

GroupAddFront(d, c) ==
    LET k == CommitPackage(c.msg)
    IN DictPut(d, k, <<c>> \o DictGet(d, k, <<>>))

\* commits[commit.package] = commits.get(commit.package, []) + [commit]
GroupAdd(d, c) ==
    LET k == CommitPackage(c.msg)
    IN DictPut(d, k, DictGet(d, k, <<>>) \o <<c>>)

\* the loop of Git.commits_by_pkg over the commits
RECURSIVE GroupByPkg(_)
GroupByPkg(commits) ==
    IF commits = <<>> THEN <<>>
    ELSE GroupAdd(GroupByPkg(SubSeq(commits, 1, Len(commits) - 1)),
                  commits[Len(commits)])

\* Git.commits_by_pkg on what the query wrote
GitCommitsByPkg(text) ==
    LET r == GitCommits(text)
    IN [err |-> r.err, val |-> GroupByPkg(r.val)]

---------------------------------------------------------------------------
(* Printer *)

SleepTicks == 1

IsBuild(x) == "pkg" \in DOMAIN x

ItemPackage(x) == IF IsBuild(x) THEN x.pkg ELSE CommitPackage(x.msg)

ItemDate(x, clock) == IF IsBuild(x) THEN BuildDate(x, clock) ELSE CommitDate(x)

\* the instants a pass over the items may read: the clock is read for a
\* build that has not finished, and never runs backwards
ClockReads(items, t) ==
    IF \E i \in 1..Len(items) : IsBuild(items[i]) /\ items[i].finished = None
    THEN {r \in Times : r >= t}
    ELSE {t}

\* Printer._items, on the feed f and the history h as they are at the call
PrinterItems(k, f, h, s, e, clock) ==
    CASE k = "builds" ->
           [err |-> "none", val |-> BuildsDuring(f, s, e, clock), io |-> 1,
            text |-> <<>>]
      [] k = "updates" ->
           [err |-> "none", val |-> BuildsUpdates(f, s, e, clock), io |-> 1,
            text |-> <<>>]
      [] k = "commits" ->
           LET r == GitCommits(GitLog(h, s, e))
           IN [err |-> r.err, val |-> r.val, io |-> 1, text |-> GitLog(h, s, e)]
      [] OTHER ->
           [err |-> "unsupported log kind", val |-> <<>>, io |-> 0, text |-> <<>>]

KeyLessByPackage(x, y, clock) == StrLess(ItemPackage(x), ItemPackage(y))

\* (x.package, x.date) < (y.package, y.date)
KeyLess(x, y, clock) ==
    \/ StrLess(ItemPackage(x), ItemPackage(y))
    \/ /\ ItemPackage(x) = ItemPackage(y)
       /\ ItemDate(x, clock) < ItemDate(y, clock)

RECURSIVE InsertSorted(_, _, _)
InsertSorted(x, s, clock) ==
    IF s = <<>> THEN <<x>>
    ELSE IF KeyLess(x, Head(s), clock) THEN <<x>> \o s
    ELSE <<Head(s)>> \o InsertSorted(x, Tail(s), clock)

\* sorted(items, key=...): each item in turn is inserted behind the items
\* whose key is not greater than its own
RECURSIVE Sorted(_, _)
Sorted(items, clock) ==
    IF items = <<>> THEN <<>>
    ELSE InsertSorted(items[Len(items)],
                      Sorted(SubSeq(items, 1, Len(items) - 1), clock), clock)

CountLineIfAny(items, k) ==
    IF items = <<>> THEN <<>> ELSE <<[line |-> "count", n |-> Len(items), kind |-> k]>>

\* print(f'{len(items)} {cli_args.command}:')
CountLine(items, k) == <<[line |-> "count", n |-> Len(items), kind |-> k]>>

\* Printer._print: the error it raises and the lines it prints
PrinterPrint(items, f) ==
    IF f \in {"tty", "md"}
    THEN [err |-> "none",
          lines |-> [i \in 1..Len(items) |-> [line |-> "item", fmt |-> f, item |-> items[i]]]]
    ELSE [err |-> "unsupported format", lines |-> <<>>]

FollowKeepStart(s, e) == s

\* self.start = self.end
FollowNextStart(s, e) == e

---------------------------------------------------------------------------
(* The inputs: command lines, feed contents, histories, subjects. *)

Kinds == {"builds", "updates", "commits", "bogus"}

Formats == {"tty", "md", "bogus"}

Pkgs == {<<97>>, <<98>>}

Finished == Times \cup {None}

\* the builds of a feed carry distinct ids
FeedsOfLen(n) ==
    {[i \in 1..n |-> [id |-> i, pkg |-> f[i][1], finished |-> f[i][2]]] :
        f \in [1..n -> Pkgs \X Finished]}

Feeds == UNION {FeedsOfLen(n) : n \in 0..MaxEntries}

\* "b: x", "a:y", "w"
Subjects == {<<98, 58, 32, 120>>, <<97, 58, 121>>, <<119>>}

\* the commits of a history carry distinct refs
HistoriesOfLen(n) ==
    {[i \in 1..n |-> [ref |-> <<48 + i>>, ts |-> IsoFormat(h[i][1]),
                      msg |-> h[i][2], author |-> <<110>>]] :
        h \in [1..n -> Times \X Subjects]}

Histories == UNION {HistoriesOfLen(n) : n \in 0..MaxEntries}

\* the histories whose commits are dated oldest first, as the query lists them
LogsOfLen(n) ==
    LET dates == {d \in [1..n -> Times] : \A i \in 1..n : \A j \in i..n : d[i] <= d[j]}
    IN {[i \in 1..n |-> [ref |-> <<48 + i>>, ts |-> IsoFormat(d[i]),
                         msg |-> m[i], author |-> <<110>>]] :
           d \in dates, m \in [1..n -> Subjects]}

Logs == UNION {LogsOfLen(n) : n \in 0..MaxCommits}

\* what a call reads of the world: the feed for builds and updates, the
\* history for commits, neither for an unsupported kind
FeedsRead(k) == IF k \in {"builds", "updates"} THEN Feeds ELSE {<<>>}

HistoriesRead(k) == IF k = "commits" THEN Histories ELSE {<<>>}

\* the feeds and the histories of at most MaxItems entries
BriefFeeds(k) ==
    IF k \in {"builds", "updates"}
    THEN UNION {FeedsOfLen(n) : n \in 0..MaxItems}
    ELSE {<<>>}

BriefHistories(k) ==
    IF k = "commits"
    THEN UNION {HistoriesOfLen(n) : n \in 0..MaxItems}
    ELSE {<<>>}

\* in follow mode the feed and the history are read anew in every turn; the
\* model lets them grow by one entry between two turns
FollowFeeds(k, first, f) ==
    IF first THEN BriefFeeds(k)
    ELSE IF k \in {"builds", "updates"} /\ Len(f) < MaxItems
    THEN {f} \cup {Append(f, [id |-> Len(f) + 1, pkg |-> p, finished |-> d]) :
                      p \in Pkgs, d \in Finished}
    ELSE {f}

FollowHistories(k, first, h) ==
    IF first THEN BriefHistories(k)
    ELSE IF k = "commits" /\ Len(h) < MaxItems
    THEN {h} \cup {Append(h, [ref |-> <<48 + Len(h) + 1>>, ts |-> IsoFormat(t),
                              msg |-> m, author |-> <<110>>]) :
                      t \in Times, m \in Subjects}
    ELSE {h}

\* the builds whose date a selection of kind k evaluates
Dated(k, f) ==
    CASE k = "builds" -> f
      [] k = "updates" -> BuildsPackages(f)
      [] OTHER -> <<>>

MsgChars == {97, 58, 32}

---------------------------------------------------------------------------
(* The report driver: Printer.print and Printer.follow. *)

InitIdle ==
    /\ feed = <<>> /\ history = <<>> /\ stdout = <<>>
    /\ selected = <<>> /\ printed = <<>> /\ out = <<>>
    /\ err = "none" /\ io = 0
    /\ window = <<>> /\ prevWindow = <<>>
    /\ groups = <<>>
    /\ now = 0 /\ selectedAt = 0

Init ==
    /\ pc = "ready"
    /\ kind \in Kinds
    /\ fmt \in Formats
    /\ sortFlag \in BOOLEAN
    /\ follow \in BOOLEAN
    /\ after \in Times
    /\ before \in Times
    \* Printer.follow reads neither the sort flag nor the first end
    /\ follow => (~sortFlag /\ before = after)
    /\ start = after
    /\ end = before
    /\ InitIdle
    /\ subject = <<>> /\ package = <<>> /\ change = <<>>

\* Printer.print(kind, format, sort), the feed and the history being among
\* feeds and histories
PrintReport(feeds, histories) ==
    /\ pc = "ready"
    /\ ~follow
    /\ \E f \in feeds, h \in histories :
       \E r1 \in ClockReads(Dated(kind, f), now) :
          LET sel == PrinterItems(kind, f, h, start, end, r1)
          IN /\ feed' = f
             /\ history' = h
             /\ stdout' = sel.text
             /\ io' = io + sel.io
             /\ selected' = sel.val
             /\ selectedAt' = r1
             /\ window' = <<start, end>>
             /\ IF sel.err # "none"
                THEN /\ err' = sel.err
                     /\ pc' = "failed"
                     /\ printed' = <<>>
                     /\ out' = <<>>
                     /\ now' = r1
                ELSE \E r2 \in (IF sortFlag THEN ClockReads(sel.val, r1) ELSE {r1}) :
                        LET items == IF sortFlag THEN Sorted(sel.val, r2) ELSE sel.val
                            p == PrinterPrint(items, fmt)
                        IN /\ printed' = items
                           /\ out' = CountLine(items, kind) \o p.lines
                           /\ err' = p.err
                           /\ pc' = IF p.err = "none" THEN "done" ELSE "failed"
                           /\ now' = r2
    /\ UNCHANGED <<kind, fmt, sortFlag, follow, start, end, prevWindow, groups,
                   after, before, subject, package, change>>

\* one turn of the loop of Printer.follow(kind, format)
FollowCycle ==
    /\ pc \in {"ready", "following"}
    /\ follow
    /\ \E t \in Times :
       /\ t >= now
       /\ end' = t
       /\ \E f \in FollowFeeds(kind, pc = "ready", feed),
             h \in FollowHistories(kind, pc = "ready", history) :
          \E r \in ClockReads(Dated(kind, f), t) :
             LET sel == PrinterItems(kind, f, h, start, t, r)
                 p == PrinterPrint(sel.val, fmt)
                 failure == IF sel.err # "none" THEN sel.err ELSE p.err
             IN /\ feed' = f
                /\ history' = h
                /\ stdout' = sel.text
                /\ io' = io + sel.io
                /\ selected' = sel.val
                /\ selectedAt' = r
                /\ window' = <<start, t>>
                /\ prevWindow' = window
                /\ printed' = IF sel.err = "none" THEN sel.val ELSE <<>>
                /\ err' = failure
                /\ IF failure # "none"
                   THEN /\ pc' = "failed"
                        /\ out' = <<>>
                        /\ start' = start
                        /\ now' = r
                   ELSE /\ pc' = "following"
                        /\ out' = p.lines
                        /\ start' = FollowNextStart(start, t)
                        /\ now' = r + SleepTicks
    /\ UNCHANGED <<kind, fmt, sortFlag, follow, groups, after, before,
                   subject, package, change>>

\* Printer.print on a feed or a history of at most MaxItems entries
PrintBrief ==
    PrintReport(BriefFeeds(kind), BriefHistories(kind))

Next == PrintBrief \/ FollowCycle

Spec == Init /\ [][Next]_vars

---------------------------------------------------------------------------
(* One report on its own: Printer.print on the feeds and the histories of   *)
(* at most MaxEntries entries.                                              *)

InitOneShot ==
    /\ pc = "ready"
    /\ kind \in Kinds
    /\ fmt = "tty"
    /\ sortFlag \in BOOLEAN
    /\ follow = FALSE
    /\ after \in Times
    /\ before \in Times
    /\ start = after
    /\ end = before
    /\ InitIdle
    /\ subject = <<>> /\ package = <<>> /\ change = <<>>

PrintOnce == PrintReport(FeedsRead(kind), HistoriesRead(kind))

NextOneShot == PrintOnce

SpecOneShot == InitOneShot /\ [][NextOneShot]_vars

---------------------------------------------------------------------------
(* The history client on its own: Git.commits and Git.commits_by_pkg. *)

InitGit ==
    /\ pc = "git"
    /\ kind = "commits" /\ fmt = "tty" /\ sortFlag = FALSE /\ follow = FALSE
    /\ after \in Times
    /\ before \in Times
    /\ start = after
    /\ end = before
    /\ InitIdle
    /\ subject = <<>> /\ package = <<>> /\ change = <<>>

\* Git.commits(start, end)
Commits ==
    /\ pc = "git"
    /\ \E h \in Logs :
          LET r == GitCommits(GitLog(h, start, end))
          IN /\ history' = h
             /\ stdout' = GitLog(h, start, end)
             /\ io' = io + 1
             /\ selected' = r.val
             /\ err' = r.err
             /\ pc' = IF r.err = "none" THEN "commits" ELSE "failed"
    /\ UNCHANGED <<kind, fmt, sortFlag, follow, start, end, now, feed, printed,
                   out, window, prevWindow, groups, after, before, selectedAt,
                   subject, package, change>>

\* Git.commits_by_pkg(start, end)
CommitsByPkg ==
    /\ pc = "git"
    /\ \E h \in Logs :
          LET r == GitCommitsByPkg(GitLog(h, start, end))
          IN /\ history' = h
             /\ stdout' = GitLog(h, start, end)
             /\ io' = io + 1
             /\ selected' = GitCommits(GitLog(h, start, end)).val
             /\ groups' = r.val
             /\ err' = r.err
             /\ pc' = IF r.err = "none" THEN "grouped" ELSE "failed"
    /\ UNCHANGED <<kind, fmt, sortFlag, follow, start, end, now, feed, printed,
                   out, window, prevWindow, after, before, selectedAt,
                   subject, package, change>>

NextGit == Commits \/ CommitsByPkg

SpecGit == InitGit /\ [][NextGit]_vars

---------------------------------------------------------------------------
(* One commit on its own: Commit.package and Commit.change. *)

InitCommit ==
    /\ pc = "commit"
    /\ kind = "commits" /\ fmt = "tty" /\ sortFlag = FALSE /\ follow = FALSE
    /\ after = 0 /\ before = 0 /\ start = 0 /\ end = 0
    /\ InitIdle
    /\ subject \in Strings(MsgChars, MaxMsgLen)
    /\ package = <<>> /\ change = <<>>

\* the properties of Commit(ref, ts, subject, author)
CommitProperties ==
    /\ pc = "commit"
    /\ package' = CommitPackage(subject)
    /\ change' = CommitChange(subject)
    /\ pc' = "derived"
    /\ UNCHANGED <<kind, fmt, sortFlag, follow, start, end, now, feed, history,
                   stdout, selected, printed, out, err, io, window, prevWindow,
                   groups, after, before, selectedAt, subject>>

NextCommit == CommitProperties

SpecCommit == InitCommit /\ [][NextCommit]_vars

---------------------------------------------------------------------------
(* The claims. *)

InWindow(t, w) == w[1] <= t /\ t <= w[2]

\* a cycle ran and its selection returned
Selected == pc \in {"done", "following", "failed"} /\ err \in {"none", "unsupported format"}

FirstIndex(s, c) == CHOOSE i \in 1..Len(s) : s[i] = c /\ \A j \in 1..(i - 1) : s[j] # c

\* C1: for a window with start <= end, the selection of kind builds holds
\* exactly the builds of the feed whose effective date d has
\* start <= d <= end, both bounds included, in the order of the feed.
C1_BuildsWithinWindow ==
    (Selected /\ kind = "builds" /\ window[1] <= window[2]) =>
        /\ \A i \in 1..Len(selected) :
              /\ \E j \in 1..Len(feed) : feed[j] = selected[i]
              /\ InWindow(BuildDate(selected[i], selectedAt), window)
        /\ \A j \in 1..Len(feed) :
              InWindow(BuildDate(feed[j], selectedAt), window)
                 => \E i \in 1..Len(selected) : selected[i] = feed[j]
        /\ \A i \in 1..Len(selected) : \A k \in (i + 1)..Len(selected) :
              selected[i].id < selected[k].id

\* a build dated exactly start and a build dated exactly end are both returned
C1_Witness ==
    /\ pc = "done" /\ kind = "builds"
    /\ window[1] < window[2]
    /\ Len(feed) = 2 /\ selected = feed
    /\ feed[1].finished = window[2]
    /\ feed[2].finished = window[1]

\* C2: the selection of kind updates holds at most one build per package,
\* and a build it holds is the last build of its package in the feed.
C2_UpdatesLastPerPackage ==
    (Selected /\ kind = "updates") =>
        /\ \A i \in 1..Len(selected) : \A k \in 1..Len(selected) :
              selected[i].pkg = selected[k].pkg => i = k
        /\ \A i \in 1..Len(selected) :
              \E j \in 1..Len(feed) :
                 /\ feed[j] = selected[i]
                 /\ \A m \in (j + 1)..Len(feed) : feed[m].pkg # feed[j].pkg

\* two builds of one package, the earlier in the feed finished later: the
\* later in the feed is returned
C2_Witness ==
    /\ pc = "done" /\ kind = "updates"
    /\ Len(feed) = 2
    /\ feed[1].pkg = feed[2].pkg
    /\ feed[1].finished # None /\ feed[2].finished # None
    /\ feed[1].finished > feed[2].finished
    /\ InWindow(feed[1].finished, window)
    /\ selected = <<feed[2]>>

\* C3: every package with a build of the feed dated within the window has
\* one entry in the selection of kind updates.
C3_UpdatesCoverWindow ==
    (Selected /\ kind = "updates") =>
        \A j \in 1..Len(feed) :
           InWindow(BuildDate(feed[j], selectedAt), window)
              => Cardinality({i \in 1..Len(selected) : selected[i].pkg = feed[j].pkg}) = 1

\* C4 as claimed: a cycle that selects no item prints the count line
\* "0 <kind>:" and nothing else, in one-shot mode and in follow mode.
C4_EmptyPrintsCountLine ==
    (Selected /\ selected = <<>>) =>
        out = <<[line |-> "count", n |-> 0, kind |-> kind]>>

\* C4 as amended: a one-shot report that selects no item prints the count
\* line "0 <kind>:" and nothing else; a cycle of follow mode that selects no
\* item prints nothing.
C4_EmptyReport ==
    (Selected /\ selected = <<>>) =>
        IF follow THEN out = <<>>
        ELSE out = <<[line |-> "count", n |-> 0, kind |-> kind]>>

\* a one-shot report on a feed none of whose builds is in the window
C4_Witness ==
    /\ pc = "done" /\ ~follow /\ kind = "builds"
    /\ feed # <<>> /\ selected = <<>>
    /\ out = <<[line |-> "count", n |-> 0, kind |-> "builds"]>>

\* C5: a report that fails for an unsupported kind or an unsupported format
\* has fetched no feed, queried no history and printed no line.
C5_FailsBeforeIO ==
    (pc = "failed" /\ err \in {"unsupported log kind", "unsupported format"}) =>
        (io = 0 /\ out = <<>>)

\* C6: Git.commits returns no commit and raises nothing when the query
\* writes nothing, and the n commits of the n lines the query writes, in
\* their order.
C6_CommitsOfOutput ==
    (pc \in {"commits", "failed"}) =>
        LET hits == SelectSeq(history, LAMBDA c : InWindow(CommitDate(c), <<start, end>>))
        IN /\ stdout = <<>> => (err = "none" /\ selected = <<>>)
           /\ stdout # <<>> => (err = "none" /\ selected = hits)

\* C7: without a colon the package is "<unknown>" and the change the
\* trimmed subject; with a colon the package is the trimmed text before the
\* first colon and the change all of the text behind it, trimmed.
C7_PackageAndChange ==
    (pc = "derived") =>
        IF COLON \notin Range(subject)
        THEN package = Unknown /\ change = Strip(subject)
        ELSE LET i == FirstIndex(subject, COLON)
             IN /\ package = Strip(SubSeq(subject, 1, i - 1))
                /\ change = Strip(SubSeq(subject, i + 1, Len(subject)))

PositionIn(s, x) == CHOOSE i \in 1..Len(s) : s[i] = x

\* C8: with the sort flag a one-shot report prints a permutation of the
\* selection ordered by package, then by date, items of equal package and
\* date in their order of selection; without it, the selection as it is.
C8_SortedReport ==
    (pc = "done" /\ ~follow) =>
        IF ~sortFlag THEN printed = selected
        ELSE /\ Len(printed) = Len(selected)
             /\ Range(printed) = Range(selected)
             /\ \A i \in 1..Len(printed) : \A j \in (i + 1)..Len(printed) :
                   LET pi == ItemPackage(printed[i])
                       pj == ItemPackage(printed[j])
                       di == ItemDate(printed[i], now)
                       dj == ItemDate(printed[j], now)
                   IN /\ StrLess(pi, pj) \/ (pi = pj /\ di <= dj)
                      /\ (pi = pj /\ di = dj) =>
                            PositionIn(selected, printed[i]) < PositionIn(selected, printed[j])

\* two items of one package, the later dated selected first: printed swapped
C8_Witness ==
    /\ pc = "done" /\ sortFlag
    /\ Len(selected) = 2
    /\ ItemPackage(selected[1]) = ItemPackage(selected[2])
    /\ ItemDate(selected[1], now) > ItemDate(selected[2], now)
    /\ printed = <<selected[2], selected[1]>>

\* C9: the groups of Git.commits_by_pkg partition the commits of
\* Git.commits: the keys are in the order of each package's first commit,
\* a group holds the commits of its package in their order, and every
\* commit is in the group of its package.
C9_GroupsPartition ==
    (pc = "grouped") =>
        /\ \A i \in 1..Len(groups) : \A j \in 1..Len(groups) :
              groups[i].key = groups[j].key => i = j
        /\ \A i \in 1..Len(groups) :
              groups[i].val =
                 SelectSeq(selected, LAMBDA c : CommitPackage(c.msg) = groups[i].key)
        /\ \A i \in 1..Len(groups) : groups[i].val # <<>>
        /\ \A i \in 1..Len(groups) : \A j \in (i + 1)..Len(groups) :
              PositionIn(selected, groups[i].val[1]) < PositionIn(selected, groups[j].val[1])
        /\ \A n \in 1..Len(selected) :
              \E i \in 1..Len(groups) : groups[i].key = CommitPackage(selected[n].msg)

\* three commits, the first and the third of one package, the second of another
C9_Witness ==
    /\ pc = "grouped"
    /\ Len(selected) = 3 /\ Len(groups) = 2
    /\ groups[1].val = <<selected[1], selected[3]>>
    /\ groups[2].val = <<selected[2]>>

\* C10 as claimed: no instant belongs to the windows of two consecutive
\* cycles of follow mode.
C10_WindowsNeverOverlap ==
    (follow /\ prevWindow # <<>>) =>
        \A t \in Times : ~(InWindow(t, prevWindow) /\ InWindow(t, window))

\* C10 as amended: a cycle of follow mode selects from [start, end], end the
\* instant it read and start the end of the cycle before it (the resolved
\* after date in the first cycle); two consecutive windows share the instant
\* where the earlier ends and the later starts, which belongs to both unless
\* the earlier window is empty, and no other instant.
C10_WindowsShareBoundary ==
    (follow /\ pc # "ready") =>
        /\ window[2] = end
        /\ prevWindow = <<>> => window[1] = after
        /\ prevWindow # <<>> =>
              /\ window[1] = prevWindow[2]
              /\ \A t \in Times :
                    (InWindow(t, prevWindow) /\ InWindow(t, window)) => t = window[1]
              /\ prevWindow[1] <= prevWindow[2] =>
                    (InWindow(window[1], prevWindow) /\ InWindow(window[1], window))

\* a build dated at the boundary, within the previous window and selected again
C10_Witness ==
    /\ follow /\ pc = "following" /\ kind = "builds"
    /\ prevWindow # <<>>
    /\ prevWindow[1] < prevWindow[2]
    /\ \E i \in 1..Len(selected) : selected[i].finished = window[1]

===========================================================================
